---- MODULE Spec2Model ----
(***************************************************************************)
(* Checkout saga of the orders app: the Order ledger (orders/models.py),   *)
(* the request handlers of orders/views.py and the helpers of              *)
(* orders/services.py they call.  Every handler is a sequence of steps of  *)
(* one worker (a request being served); a step ends at a call to an        *)
(* external party (PayPal, Shopify, Firestore) or at a database access, so *)
(* that two requests on the same order interleave as they do in the server.*)
(* Money is in integer minor units (cents).                                *)
(***************************************************************************)
EXTENDS Integers, Sequences, FiniteSets, TLC

VARIABLES
    orders,        \* the Order table: orders[i] is the row with primary key i
    req,           \* req[w]: the request worker w is serving (its locals, its response)
    catalog,       \* Shopify: variant id -> the variant the Admin API reports
    firestore,     \* Firestore 'products': variant id -> inventory
    calls,         \* calls[i][op]: gateway calls made on behalf of order i
    nextPayPalId,  \* the next order id PayPal issues
    nextShopifyId, \* the next order id Shopify issues
    audit,         \* Firestore 'orders': the order numbers that have a document
    nreq           \* requests started so far

vars == <<orders, req, catalog, firestore, calls, nextPayPalId, nextShopifyId, audit, nreq>>

----------------------------------------------------------------------------
(* Bounds of the model *)

MaxItems == 2        \* line items in a submitted cart
MaxOrders == 2       \* rows of the Order table
MaxRequests == 4     \* requests served in one behaviour

Workers == {1, 2}    \* requests served at the same time
Variants == {1, 2}   \* variant ids
Quantities == {0, 1, 2}
Stocks == {0, 1}
Prices == {999, 100000, 100001}   \* 9.99, 1000.00 and 1000.01

(* Program constants *)

Null == 0            \* None / NULL
NoAttr == -1         \* an attribute the instance does not have
RelTolInv == 100000  \* 1 / rel_tol, rel_tol = 1e-5

Statuses == {"PENDING", "AUTHORIZED", "CAPTURED", "FAILED", "CANCELLED"}

(* The columns of the Order table (user_id and the timestamps left out). *)
ModelFieldsWithAuthorization ==
    {"id", "status", "paypal_order_id", "shopify_order_id", "order_data",
     "paypal_authorization_id"}

ModelFields == {"id", "status", "paypal_order_id", "shopify_order_id", "order_data"}

(* Every attribute the views read or assign on an Order instance. *)
InstanceAttrs ==
    {"id", "status", "paypal_order_id", "shopify_order_id", "order_data",
     "paypal_authorization_id", "shopify_order_number"}

NoData == [line_items |-> <<>>, amount |-> 0, email |-> FALSE]

(* Order.objects.get(...): an instance has the model's fields and nothing else. *)
LoadOrder(row) ==
    [a \in InstanceAttrs |-> IF a \in DOMAIN row THEN row[a] ELSE NoAttr]

(* instance.save(): every column is written from the instance; an attribute *)
(* that is no field of the model is not stored.                             *)
Persist(inst) == [f \in ModelFields |-> inst[f]]

NewOrderAuthorized(id, data) ==
    [a \in InstanceAttrs |->
        CASE a = "id" -> id
          [] a = "status" -> "AUTHORIZED"
          [] a = "order_data" -> data
          [] a \in {"paypal_order_id", "shopify_order_id"} -> Null
          [] OTHER -> NoAttr]

(* Order.objects.create(user_id, order_data, status=PENDING) *)
NewOrder(id, data) ==
    [a \in InstanceAttrs |->
        CASE a = "id" -> id
          [] a = "status" -> "PENDING"
          [] a = "order_data" -> data
          [] a \in {"paypal_order_id", "shopify_order_id"} -> Null
          [] OTHER -> NoAttr]

NoInst ==
    [a \in InstanceAttrs |->
        CASE a = "status" -> "NONE"
          [] a = "order_data" -> NoData
          [] a \in {"paypal_authorization_id", "shopify_order_number"} -> NoAttr
          [] OTHER -> Null]

(* Reading instance.a raises AttributeError unless the instance has it. *)
HasAttr(inst, a) == inst[a] # NoAttr

----------------------------------------------------------------------------
(* Cart validation: the loop of create_paypal_order *)

Abs(x) == IF x < 0 THEN -x ELSE x
Max(a, b) == IF a >= b THEN a ELSE b

IsCloseNoAbs(a, b) == a - b <= Max(Abs(a), Abs(b)) \div RelTolInv

(* math.isclose(a, b, rel_tol=1e-5): abs(a-b) <= rel_tol * max(|a|, |b|); on *)
(* whole cents d <= m / 100000 is d <= m \div 100000.                        *)
IsClose(a, b) == Abs(a - b) <= Max(Abs(a), Abs(b)) \div RelTolInv

Items == [variant_id : Variants, quantity : Quantities, price : Prices]

(* all([variant_id, quantity, frontend_price]) *)
Truthy(item) == item.variant_id # Null /\ item.quantity # 0 /\ item.price # 0

ReadOutcomes == {"ok", "none", "raise"}

Err(v, k) == [variant_id |-> v, error |-> k]

StockErrorOffByOne(item, variant) == item.quantity > variant.inventory_quantity + 1

(* 1. Validate Inventory *)
StockError(item, variant) == item.quantity > variant.inventory_quantity

(* 2. Validate Price *)
PriceError(item, variant) == ~IsClose(item.price, variant.price)

(* The errors one examined item adds to validation_errors. *)
ItemErrors(item, variant) ==
    (IF StockError(item, variant) THEN <<Err(item.variant_id, "out_of_stock")>> ELSE <<>>)
    \o (IF PriceError(item, variant) THEN <<Err(item.variant_id, "price_changed")>> ELSE <<>>)

(* validated_item = item.copy(); validated_item['price'] = shopify_price *)
ValidatedItem(item, variant) == [item EXCEPT !.price = variant.price]

LineTotalFrontend(item, variant) == item.price * item.quantity
(* recalculated_amount += shopify_price * quantity *)
LineTotal(item, variant) == variant.price * item.quantity

NoValidation ==
    [errors |-> <<>>, items |-> <<>>, amount |-> 0, aborted |-> FALSE, examined |-> <<>>]

(* for item in data['line_items']: the loop ends with the last item *)
LoopDone(cart, i, acc) == i > Len(cart)

(* The validation loop from item i on; reads[i] is what get_variant_details *)
(* does for the i-th item: returns the variant, returns None, or raises.    *)
(* acc.examined lists, per item the loop got to, what happened to it.       *)
RECURSIVE ValidateFrom(_, _, _, _, _)
ValidateFrom(cart, reads, cat, i, acc) ==
    IF LoopDone(cart, i, acc) THEN acc
    ELSE LET item == cart[i]
             variant == cat[item.variant_id]
         IN IF ~Truthy(item)
            THEN ValidateFrom(cart, reads, cat, i + 1,
                    [acc EXCEPT !.errors = Append(@, Err(Null, "invalid")),
                                !.examined = Append(@, "invalid")])
            ELSE IF reads[i] = "raise"
            THEN [acc EXCEPT !.aborted = TRUE, !.examined = Append(@, "raise")]
            ELSE IF reads[i] = "none"
            THEN ValidateFrom(cart, reads, cat, i + 1,
                    [acc EXCEPT !.errors = Append(@, Err(item.variant_id, "unavailable")),
                                !.examined = Append(@, "none")])
            ELSE LET errors == acc.errors \o ItemErrors(item, variant)
                 IN ValidateFrom(cart, reads, cat, i + 1,
                        [errors |-> errors,
                         items |-> IF errors = <<>>
                                   THEN Append(acc.items, ValidatedItem(item, variant))
                                   ELSE acc.items,
                         amount |-> IF errors = <<>>
                                    THEN acc.amount + LineTotal(item, variant)
                                    ELSE acc.amount,
                         aborted |-> FALSE,
                         examined |-> Append(acc.examined, "ok")])

ValidateCart(cart, reads, cat) == ValidateFrom(cart, reads, cat, 1, NoValidation)

----------------------------------------------------------------------------
(* Settlement stock re-check (services.py) *)

(* is_stock_available: inventory is not None and inventory >= quantity; a *)
(* Firestore error is caught and answers False.                           *)
IsStockAvailable(fs, v, q, fsError) == ~fsError /\ fs[v] >= q

(* check_ali_express_stock(order) *)
CheckAliExpressStock(inst, fs, fsError) ==
    LET line_items == inst["order_data"].line_items
    IN /\ line_items # <<>>
       /\ \A i \in 1..Len(line_items) :
             /\ line_items[i].variant_id # Null
             /\ IsStockAvailable(fs, line_items[i].variant_id, line_items[i].quantity, fsError)

----------------------------------------------------------------------------
(* Requests *)

Ops == {"pp_create", "authorize", "capture", "capture_ok", "void",
        "sh_create", "sh_create_ok", "sh_cancel", "sh_update", "sh_update_ok", "notify",
        "overlap"}

IdleReq ==
    [h |-> "idle", pc |-> "idle", inst |-> NoInst, cart |-> <<>>, email |-> FALSE,
     errors |-> <<>>, resp |-> "none", msg |-> "none", did |-> {}, sent |-> Null,
     seen |-> "NONE", n0 |-> 0, examined |-> <<>>, conc |-> {}]

(* A worker takes a new request when it serves none. *)
Free(w) == req[w].pc \in {"idle", "done"} /\ nreq < MaxRequests

NewReq(h) == [IdleReq EXCEPT !.h = h, !.n0 = Len(orders)]

Respond(r, resp, msg) == [r EXCEPT !.pc = "done", !.resp = resp, !.msg = msg]

(* Worker w starts serving r. r.conc names the workers whose request was in *)
(* progress when r started (while they still serve that request).           *)
Begin(w, r) ==
    req' = [v \in Workers |-> IF v = w THEN r ELSE [req[v] EXCEPT !.conc = @ \ {w}]]

(* The settlement requests on order id in progress on other workers. *)
Settling(w, id) ==
    {v \in Workers \ {w} : /\ req[v].h \in {"capture", "process"}
                           /\ req[v].pc \notin {"idle", "done"}
                           /\ req[v].inst["id"] = id}

(* The 'errors' of a JSON response of create_paypal_order: validation_errors *)
(* with status 400, one generic entry with status 500.                       *)
ResponseErrors(r) ==
    IF r.resp = "400_errors" THEN r.errors
    ELSE IF r.resp = "500_errors" THEN <<Err(Null, "internal")>>
    ELSE <<>>

Count(o, ops) ==
    [calls EXCEPT ![o] = [op \in Ops |-> IF op \in ops THEN @[op] + 1 ELSE @[op]]]

(* Order.objects.filter(paypal_order_id=token) *)
ByPayPalId(token) == {i \in 1..Len(orders) : orders[i]["paypal_order_id"] = token}

Save(inst) == [orders EXCEPT ![inst["id"]] = Persist(inst)]

----------------------------------------------------------------------------
(* create_paypal_order: validation, then the Order row *)
StartOpen(w, cart, email, reads) ==
    /\ Free(w)
    /\ Len(orders) < MaxOrders
    /\ nreq' = nreq + 1
    /\ LET v == ValidateCart(cart, reads, catalog)
           r == [NewReq("open") EXCEPT !.cart = cart, !.email = email,
                                       !.examined = IF cart = <<>> THEN <<>> ELSE v.examined]
       IN IF cart = <<>>
          THEN /\ Begin(w, Respond(r, "400_bad_request", "empty_order"))
               /\ UNCHANGED orders
          ELSE IF v.aborted
          THEN /\ Begin(w, Respond([r EXCEPT !.errors = v.errors], "500_errors", "internal"))
               /\ UNCHANGED orders
          ELSE IF v.errors # <<>>
          THEN /\ Begin(w, Respond([r EXCEPT !.errors = v.errors], "400_errors", "validation"))
               /\ UNCHANGED orders
          ELSE LET inst == NewOrder(Len(orders) + 1,
                                    [line_items |-> v.items, amount |-> v.amount,
                                     email |-> email])
               IN /\ orders' = Append(orders, Persist(inst))
                  /\ Begin(w, [r EXCEPT !.pc = "open_paypal", !.inst = inst])
    /\ UNCHANGED <<catalog, firestore, calls, nextPayPalId, nextShopifyId, audit>>

OpenPayPalReusingId(w) ==
    /\ req[w].pc = "open_paypal"
    /\ \E ok \in BOOLEAN :
        LET r == [req[w] EXCEPT !.did = @ \cup {"pp_create"},
                                !.sent = req[w].inst["order_data"].amount]
            inst == [req[w].inst EXCEPT !["paypal_order_id"] = 1]
        IN IF ok
           THEN /\ orders' = Save(inst)
                /\ nextPayPalId' = nextPayPalId + 1
                /\ req' = [req EXCEPT ![w] = Respond([r EXCEPT !.inst = inst], "200_approval", "ok")]
           ELSE /\ req' = [req EXCEPT ![w] = Respond(r, "500", "paypal_error")]
                /\ UNCHANGED <<orders, nextPayPalId>>
    /\ calls' = Count(req[w].inst["id"], {"pp_create"})
    /\ UNCHANGED <<catalog, firestore, nextShopifyId, audit, nreq>>

(* create_paypal_order: paypal_service.create_order, then local_order.save() *)
OpenPayPal(w) ==
    /\ req[w].pc = "open_paypal"
    /\ \E ok \in BOOLEAN :
        LET r == [req[w] EXCEPT !.did = @ \cup {"pp_create"},
                                !.sent = req[w].inst["order_data"].amount]
            inst == [req[w].inst EXCEPT !["paypal_order_id"] = nextPayPalId]
        IN IF ok
           THEN /\ orders' = Save(inst)
                /\ nextPayPalId' = nextPayPalId + 1
                /\ req' = [req EXCEPT ![w] = Respond([r EXCEPT !.inst = inst], "200_approval", "ok")]
           ELSE /\ req' = [req EXCEPT ![w] = Respond(r, "500", "paypal_error")]
                /\ UNCHANGED <<orders, nextPayPalId>>
    /\ calls' = Count(req[w].inst["id"], {"pp_create"})
    /\ UNCHANGED <<catalog, firestore, nextShopifyId, audit, nreq>>

----------------------------------------------------------------------------
(* paypal_return: the lookup by token *)
StartReturn(w, token) ==
    /\ Free(w)
    /\ nreq' = nreq + 1
    /\ LET r == NewReq("return")
       IN IF token = Null
          THEN Begin(w, Respond(r, "400_bad_request", "missing_token"))
          ELSE IF ByPayPalId(token) = {}
          THEN Begin(w, Respond(r, "redirect_failure", "not_found"))
          ELSE LET row == orders[CHOOSE i \in ByPayPalId(token) : TRUE]
               IN Begin(w, [r EXCEPT !.pc = "authorize", !.inst = LoadOrder(row),
                                     !.seen = row["status"]])
    /\ UNCHANGED <<orders, catalog, firestore, calls, nextPayPalId, nextShopifyId, audit>>

ReturnAuthorizeSavingEarly(w) ==
    /\ req[w].pc = "authorize"
    /\ \E out \in {"ok", "no_id", "raise"} :
        LET r == [req[w] EXCEPT !.did = @ \cup {"authorize"}]
            inst == [req[w].inst EXCEPT !["paypal_authorization_id"] = nextPayPalId,
                                        !["status"] = "AUTHORIZED"]
        IN IF out = "ok"
           THEN /\ req' = [req EXCEPT ![w] = [r EXCEPT !.pc = "shopify_create", !.inst = inst]]
                /\ orders' = Save(inst)
                /\ nextPayPalId' = nextPayPalId + 1
           ELSE /\ req' = [req EXCEPT ![w] = Respond(r, "redirect_failure", out)]
                /\ UNCHANGED <<orders, nextPayPalId>>
    /\ calls' = Count(req[w].inst["id"], {"authorize"})
    /\ UNCHANGED <<catalog, firestore, nextShopifyId, audit, nreq>>

(* paypal_return: paypal_service.authorize_order and the authorization id *)
ReturnAuthorize(w) ==
    /\ req[w].pc = "authorize"
    /\ \E out \in {"ok", "no_id", "raise"} :
        LET r == [req[w] EXCEPT !.did = @ \cup {"authorize"}]
        IN IF out = "ok"
           THEN /\ req' = [req EXCEPT ![w] =
                             [r EXCEPT !.pc = "shopify_create",
                                       !.inst["paypal_authorization_id"] = nextPayPalId]]
                /\ nextPayPalId' = nextPayPalId + 1
           ELSE /\ req' = [req EXCEPT ![w] = Respond(r, "redirect_failure", out)]
                /\ UNCHANGED nextPayPalId
    /\ calls' = Count(req[w].inst["id"], {"authorize"})
    /\ UNCHANGED <<orders, catalog, firestore, nextShopifyId, audit, nreq>>

ReturnCreateShopifyAuditFatal(w) ==
    /\ req[w].pc = "shopify_create"
    /\ \E ok \in BOOLEAN, auditOk \in BOOLEAN :
        LET r == [req[w] EXCEPT !.did = @ \cup (IF ok THEN {"sh_create", "sh_create_ok"}
                                                 ELSE {"sh_create"})]
            inst == [req[w].inst EXCEPT !["shopify_order_id"] = nextShopifyId,
                                        !["shopify_order_number"] = nextShopifyId,
                                        !["status"] = "AUTHORIZED"]
        IN IF ok
           THEN /\ orders' = Save(inst)
                /\ nextShopifyId' = nextShopifyId + 1
                /\ audit' = IF auditOk THEN audit \cup {nextShopifyId} ELSE audit
                /\ calls' = Count(inst["id"], {"sh_create", "sh_create_ok"})
                /\ req' = [req EXCEPT ![w] =
                             IF auditOk
                             THEN Respond([r EXCEPT !.inst = inst], "redirect_success", "ok")
                             ELSE Respond([r EXCEPT !.inst = inst], "redirect_failure", "audit_error")]
           ELSE /\ req' = [req EXCEPT ![w] = Respond(r, "redirect_failure", "shopify_error")]
                /\ calls' = Count(inst["id"], {"sh_create"})
                /\ UNCHANGED <<orders, nextShopifyId, audit>>
    /\ UNCHANGED <<catalog, firestore, nextPayPalId, nreq>>

(* paypal_return: shopify_service.create_order, local_order.save(), and the *)
(* audit document (save_order_to_firestore answers False when it fails)     *)
ReturnCreateShopify(w) ==
    /\ req[w].pc = "shopify_create"
    /\ \E ok \in BOOLEAN, auditOk \in BOOLEAN :
        LET r == [req[w] EXCEPT !.did = @ \cup (IF ok THEN {"sh_create", "sh_create_ok"}
                                                 ELSE {"sh_create"})]
            inst == [req[w].inst EXCEPT !["shopify_order_id"] = nextShopifyId,
                                        !["shopify_order_number"] = nextShopifyId,
                                        !["status"] = "AUTHORIZED"]
        IN IF ok
           THEN /\ orders' = Save(inst)
                /\ nextShopifyId' = nextShopifyId + 1
                /\ audit' = IF auditOk THEN audit \cup {nextShopifyId} ELSE audit
                /\ calls' = Count(inst["id"], {"sh_create", "sh_create_ok"})
                /\ req' = [req EXCEPT ![w] =
                             Respond([r EXCEPT !.inst = inst], "redirect_success", "ok")]
           ELSE /\ req' = [req EXCEPT ![w] = Respond(r, "redirect_failure", "shopify_error")]
                /\ calls' = Count(inst["id"], {"sh_create"})
                /\ UNCHANGED <<orders, nextShopifyId, audit>>
    /\ UNCHANGED <<catalog, firestore, nextPayPalId, nreq>>

----------------------------------------------------------------------------
(* paypal_cancel: the lookup by token *)
StartCancel(w, token) ==
    /\ Free(w)
    /\ nreq' = nreq + 1
    /\ LET r == NewReq("cancel")
       IN IF token = Null \/ ByPayPalId(token) = {}
          THEN Begin(w, Respond(r, "redirect_cancel", "no_order"))
          ELSE LET row == orders[CHOOSE i \in ByPayPalId(token) : TRUE]
               IN Begin(w, [r EXCEPT !.pc = "cancel_save", !.inst = LoadOrder(row),
                                     !.seen = row["status"]])
    /\ UNCHANGED <<orders, catalog, firestore, calls, nextPayPalId, nextShopifyId, audit>>

(* paypal_cancel: local_order.status = CANCELLED; local_order.save() *)
CancelSave(w) ==
    /\ req[w].pc = "cancel_save"
    /\ LET inst == [req[w].inst EXCEPT !["status"] = "CANCELLED"]
       IN /\ orders' = Save(inst)
          /\ req' = [req EXCEPT ![w] = Respond([req[w] EXCEPT !.inst = inst], "redirect_cancel", "ok")]
    /\ UNCHANGED <<catalog, firestore, calls, nextPayPalId, nextShopifyId, audit, nreq>>

----------------------------------------------------------------------------
AnyStatus(id) == id \in 1..Len(orders)

(* get_object_or_404(Order, id=order_id, status=AUTHORIZED) *)
Authorized(id) == id \in 1..Len(orders) /\ orders[id]["status"] = "AUTHORIZED"

(* capture_payment: the lookup; Http404 is caught by `except Exception` *)
StartCapture(w, id) ==
    /\ Free(w)
    /\ nreq' = nreq + 1
    /\ LET r == [NewReq("capture") EXCEPT
                    !.seen = IF id \in 1..Len(orders) THEN orders[id]["status"] ELSE "NONE"]
       IN IF Authorized(id)
          THEN /\ Begin(w, [r EXCEPT !.pc = "capture", !.inst = LoadOrder(orders[id]),
                                     !.conc = Settling(w, id)])
               /\ calls' = IF Settling(w, id) = {} THEN calls ELSE Count(id, {"overlap"})
          ELSE /\ Begin(w, Respond(r, "500", "not_found"))
               /\ UNCHANGED calls
    /\ UNCHANGED <<orders, catalog, firestore, nextPayPalId, nextShopifyId, audit>>

(* process_order: the lookup; Http404 reaches the caller *)
StartProcess(w, id) ==
    /\ Free(w)
    /\ nreq' = nreq + 1
    /\ LET r == [NewReq("process") EXCEPT
                    !.seen = IF id \in 1..Len(orders) THEN orders[id]["status"] ELSE "NONE"]
       IN IF Authorized(id)
          THEN /\ Begin(w, [r EXCEPT !.pc = "stock", !.inst = LoadOrder(orders[id]),
                                     !.conc = Settling(w, id)])
               /\ calls' = IF Settling(w, id) = {} THEN calls ELSE Count(id, {"overlap"})
          ELSE /\ Begin(w, Respond(r, "404", "not_found"))
               /\ UNCHANGED calls
    /\ UNCHANGED <<orders, catalog, firestore, nextPayPalId, nextShopifyId, audit>>

(* process_order: 1. Stock Verification, and the argument of the capture call *)
(* (reading local_order.paypal_authorization_id inside the try of step 2)     *)
ProcessStock(w) ==
    /\ req[w].pc = "stock"
    /\ \E fsError \in BOOLEAN :
        LET stock == CheckAliExpressStock(req[w].inst, firestore, fsError)
            r == [req[w] EXCEPT !.did = @ \cup {IF stock THEN "stock_ok" ELSE "stock_failed"}]
        IN req' = [req EXCEPT ![w] =
              IF ~stock THEN [r EXCEPT !.pc = "cancel_flow", !.msg = "out_of_stock"]
              ELSE IF ~HasAttr(r.inst, "paypal_authorization_id")
              THEN [r EXCEPT !.pc = "cancel_flow", !.msg = "payment_failed"]
              ELSE [r EXCEPT !.pc = "capture"]]
    /\ UNCHANGED <<orders, catalog, firestore, calls, nextPayPalId, nextShopifyId, audit, nreq>>

CaptureUnchecked(w) ==
    /\ req[w].pc = "capture"
    /\ \E ok \in BOOLEAN :
        /\ req' = [req EXCEPT ![w] =
              [@ EXCEPT !.pc = "update",
                        !.did = @ \cup (IF ok THEN {"capture", "capture_ok"} ELSE {"capture"})]]
        /\ calls' = Count(req[w].inst["id"],
                          IF ok THEN {"capture", "capture_ok"} ELSE {"capture"})
    /\ UNCHANGED <<orders, catalog, firestore, nextPayPalId, nextShopifyId, audit, nreq>>

(* paypal_service.capture_payment(...) in capture_payment and in process_order *)
Capture(w) ==
    /\ req[w].pc = "capture"
    /\ \E ok \in BOOLEAN :
        LET r == [req[w] EXCEPT !.did = @ \cup (IF ok THEN {"capture", "capture_ok"} ELSE {"capture"})]
        IN /\ req' = [req EXCEPT ![w] =
                IF ok THEN [r EXCEPT !.pc = "update"]
                ELSE IF r.h = "capture" THEN Respond(r, "500", "paypal_error")
                ELSE [r EXCEPT !.pc = "cancel_flow", !.msg = "payment_failed"]]
           /\ calls' = Count(req[w].inst["id"],
                             IF ok THEN {"capture", "capture_ok"} ELSE {"capture"})
    /\ UNCHANGED <<orders, catalog, firestore, nextPayPalId, nextShopifyId, audit, nreq>>

(* shopify_service.update_order_to_paid(...), then status = CAPTURED and save() *)
UpdateToPaid(w) ==
    /\ req[w].pc = "update"
    /\ \E ok \in BOOLEAN :
        LET r == [req[w] EXCEPT !.did = @ \cup (IF ok THEN {"sh_update", "sh_update_ok"} ELSE {"sh_update"})]
            inst == [req[w].inst EXCEPT !["status"] = "CAPTURED"]
        IN /\ IF ok
              THEN /\ orders' = Save(inst)
                   /\ req' = [req EXCEPT ![w] = Respond([r EXCEPT !.inst = inst], "200_success", "ok")]
              ELSE /\ UNCHANGED orders
                   /\ req' = [req EXCEPT ![w] =
                        IF r.h = "capture" THEN Respond(r, "500", "shopify_error")
                        ELSE [r EXCEPT !.pc = "cancel_flow", !.msg = "critical"]]
           /\ calls' = Count(req[w].inst["id"],
                             IF ok THEN {"sh_update", "sh_update_ok"} ELSE {"sh_update"})
    /\ UNCHANGED <<catalog, firestore, nextPayPalId, nextShopifyId, audit, nreq>>

CancelOrderFlowIsolated(w) ==
    /\ req[w].pc = "cancel_flow"
    /\ \E voidOk \in BOOLEAN, cancelOk \in BOOLEAN, saveOk \in BOOLEAN :
        LET inst == req[w].inst
            o == inst["id"]
            hasAuth == HasAttr(inst, "paypal_authorization_id")
            doVoid == hasAuth /\ inst["paypal_authorization_id"] # Null
            afterVoid == hasAuth /\ (doVoid => voidOk)
            doCancel == afterVoid /\ inst["shopify_order_id"] # Null
            afterCancel == afterVoid /\ (doCancel => cancelOk)
            afterSave == afterCancel /\ saveOk
            doNotify == afterSave /\ inst["order_data"].email
            done == (IF doVoid THEN {"void"} ELSE {})
                    \cup (IF doCancel THEN {"sh_cancel"} ELSE {})
                    \cup (IF doNotify THEN {"notify"} ELSE {})
            failed == (IF doVoid /\ ~voidOk THEN {"void_failed"} ELSE {})
                      \cup (IF doCancel /\ ~cancelOk THEN {"sh_cancel_failed"} ELSE {})
                      \cup (IF afterCancel /\ ~saveOk THEN {"save_failed"} ELSE {})
            cancelled == [inst EXCEPT !["status"] = "CANCELLED"]
            r == [req[w] EXCEPT !.did = @ \cup done \cup failed]
        IN /\ calls' = Count(o, done)
           /\ IF saveOk
              THEN /\ orders' = Save(cancelled)
                   /\ req' = [req EXCEPT ![w] = Respond([r EXCEPT !.inst = cancelled], "400_error", r.msg)]
              ELSE /\ UNCHANGED orders
                   /\ req' = [req EXCEPT ![w] = Respond(r, "400_error", r.msg)]
    /\ UNCHANGED <<catalog, firestore, nextPayPalId, nextShopifyId, audit, nreq>>

CancelOrderFlowRaising(w) ==
    /\ req[w].pc = "cancel_flow"
    /\ \E voidOk \in BOOLEAN, cancelOk \in BOOLEAN, saveOk \in BOOLEAN :
        LET inst == req[w].inst
            o == inst["id"]
            hasAuth == HasAttr(inst, "paypal_authorization_id")
            doVoid == hasAuth /\ inst["paypal_authorization_id"] # Null
            afterVoid == hasAuth /\ (doVoid => voidOk)
            doCancel == afterVoid /\ inst["shopify_order_id"] # Null
            afterCancel == afterVoid /\ (doCancel => cancelOk)
            afterSave == afterCancel /\ saveOk
            doNotify == afterSave /\ inst["order_data"].email
            done == (IF doVoid THEN {"void"} ELSE {})
                    \cup (IF doCancel THEN {"sh_cancel"} ELSE {})
                    \cup (IF doNotify THEN {"notify"} ELSE {})
            failed == (IF doVoid /\ ~voidOk THEN {"void_failed"} ELSE {})
                      \cup (IF doCancel /\ ~cancelOk THEN {"sh_cancel_failed"} ELSE {})
                      \cup (IF afterCancel /\ ~saveOk THEN {"save_failed"} ELSE {})
            cancelled == [inst EXCEPT !["status"] = "CANCELLED"]
            r == [req[w] EXCEPT !.did = @ \cup done \cup failed]
        IN /\ calls' = Count(o, done)
           /\ IF afterSave
              THEN /\ orders' = Save(cancelled)
                   /\ req' = [req EXCEPT ![w] = Respond([r EXCEPT !.inst = cancelled], "400_error", r.msg)]
              ELSE /\ UNCHANGED orders
                   /\ req' = [req EXCEPT ![w] = Respond(r, "500", "exception")]
    /\ UNCHANGED <<catalog, firestore, nextPayPalId, nextShopifyId, audit, nreq>>

(* process_order._cancel_order_flow: one try block around the void, the     *)
(* cancel, the status change and the notification; any exception ends it.   *)
(* The first statement reads local_order.paypal_authorization_id.           *)
CancelOrderFlow(w) ==
    /\ req[w].pc = "cancel_flow"
    /\ \E voidOk \in BOOLEAN, cancelOk \in BOOLEAN, saveOk \in BOOLEAN :
        LET inst == req[w].inst
            o == inst["id"]
            hasAuth == HasAttr(inst, "paypal_authorization_id")
            doVoid == hasAuth /\ inst["paypal_authorization_id"] # Null
            afterVoid == hasAuth /\ (doVoid => voidOk)
            doCancel == afterVoid /\ inst["shopify_order_id"] # Null
            afterCancel == afterVoid /\ (doCancel => cancelOk)
            afterSave == afterCancel /\ saveOk
            doNotify == afterSave /\ inst["order_data"].email
            done == (IF doVoid THEN {"void"} ELSE {})
                    \cup (IF doCancel THEN {"sh_cancel"} ELSE {})
                    \cup (IF doNotify THEN {"notify"} ELSE {})
            failed == (IF doVoid /\ ~voidOk THEN {"void_failed"} ELSE {})
                      \cup (IF doCancel /\ ~cancelOk THEN {"sh_cancel_failed"} ELSE {})
                      \cup (IF afterCancel /\ ~saveOk THEN {"save_failed"} ELSE {})
            cancelled == [inst EXCEPT !["status"] = "CANCELLED"]
            r == [req[w] EXCEPT !.did = @ \cup done \cup failed]
        IN /\ calls' = Count(o, done)
           /\ IF afterSave
              THEN /\ orders' = Save(cancelled)
                   /\ req' = [req EXCEPT ![w] = Respond([r EXCEPT !.inst = cancelled], "400_error", r.msg)]
              ELSE /\ UNCHANGED orders
                   /\ req' = [req EXCEPT ![w] = Respond(r, "400_error", r.msg)]
    /\ UNCHANGED <<catalog, firestore, nextPayPalId, nextShopifyId, audit, nreq>>

----------------------------------------------------------------------------
(* test_process_order, one request as a whole. After the lookup the view    *)
(* logs local_order.paypal_authorization_id outside any try: on an instance *)
(* without that attribute the request ends there (500). Past that line:     *)
(* stock check; on failure the void (ACCEPT_SANDBOX_PAYMENTS_FOR_TEST), a   *)
(* cancel_order call with an unknown keyword (never sent), CANCELLED and    *)
(* save(); otherwise Order.Status.PAID (no such member) under the two test  *)
(* flags, or the real capture, CAPTURED and save(); then the reads of       *)
(* local_order.shopify_order_number and, with AUTO_FULFILL_ORDER_FOR_TEST,  *)
(* mark_order_as_paid_for_test.                                             *)
TestProcessOrder(w, id) ==
    /\ Free(w)
    /\ nreq' = nreq + 1
    /\ UNCHANGED <<catalog, firestore, nextPayPalId, nextShopifyId, audit>>
    /\ LET r == [NewReq("test_process") EXCEPT
                    !.seen = IF id \in 1..Len(orders) THEN orders[id]["status"] ELSE "NONE"]
       IN IF ~Authorized(id)
          THEN /\ Begin(w, Respond(r, "404", "not_found"))
               /\ UNCHANGED <<orders, calls>>
          ELSE IF ~HasAttr(LoadOrder(orders[id]), "paypal_authorization_id")
          THEN /\ Begin(w, Respond([r EXCEPT !.inst = LoadOrder(orders[id])],
                                   "500", "attribute_error"))
               /\ UNCHANGED <<orders, calls>>
          ELSE \E fsError \in BOOLEAN, sandbox \in BOOLEAN, auto \in BOOLEAN,
                  fulfill \in BOOLEAN, capOk \in BOOLEAN, paidOk \in BOOLEAN :
                LET inst == LoadOrder(orders[id])
                    stock == CheckAliExpressStock(inst, firestore, fsError)
                    number == HasAttr(inst, "shopify_order_number")
                    simulated == sandbox /\ auto
                    captured == stock /\ ~simulated /\ capOk
                    update == captured /\ number /\ fulfill
                    done == (IF stock THEN {"stock_ok"} ELSE {"stock_failed"})
                            \cup (IF ~stock /\ sandbox THEN {"void"} ELSE {})
                            \cup (IF stock /\ ~simulated THEN {"capture"} ELSE {})
                            \cup (IF captured THEN {"capture_ok"} ELSE {})
                            \cup (IF update THEN {"sh_update"} ELSE {})
                            \cup (IF update /\ paidOk THEN {"sh_update_ok"} ELSE {})
                    saved == [inst EXCEPT !["status"] =
                                IF ~stock THEN "CANCELLED"
                                ELSE IF captured THEN "CAPTURED" ELSE @]
                    resp == IF ~stock THEN (IF number THEN "400_error" ELSE "500")
                            ELSE IF captured /\ number /\ (update => paidOk)
                            THEN "200_success" ELSE "500"
                IN /\ orders' = IF ~stock \/ captured THEN Save(saved) ELSE orders
                   /\ calls' = Count(id, done)
                   /\ Begin(w, Respond([r EXCEPT !.inst = saved, !.did = done],
                                       resp, "test"))

----------------------------------------------------------------------------
(* paypal_webhook: the event is logged and acknowledged; the signature is   *)
(* not looked at (r.msg records whether it could have been verified).       *)
PayPalWebhook(w, verifiable) ==
    /\ Free(w)
    /\ nreq' = nreq + 1
    /\ Begin(w, Respond(NewReq("webhook"), "200",
                        IF verifiable THEN "verifiable" ELSE "unverifiable"))
    /\ UNCHANGED <<orders, catalog, firestore, calls, nextPayPalId, nextShopifyId, audit>>

----------------------------------------------------------------------------
(* export_to_firestore.py: a product document is (re)written *)
ExportToFirestore(v, n) ==
    /\ firestore[v] # n
    /\ firestore' = [firestore EXCEPT ![v] = n]
    /\ UNCHANGED <<orders, req, catalog, calls, nextPayPalId, nextShopifyId, audit, nreq>>

----------------------------------------------------------------------------
(* Specifications *)

RECURSIVE SeqsUpTo(_, _)
SeqsUpTo(S, n) ==
    IF n = 0 THEN {<<>>}
    ELSE LET shorter == SeqsUpTo(S, n - 1)
         IN shorter \cup {Append(c, x) : c \in {d \in shorter : Len(d) = n - 1}, x \in S}

Carts == SeqsUpTo(Items, MaxItems)

(* What Shopify reports for a variant: 1000.00 with one in stock, or 9.99 *)
(* with two in stock.                                                    *)
VariantStates == {[price |-> 100000, inventory_quantity |-> 1],
                  [price |-> 999, inventory_quantity |-> 2]}

Catalogs == [Variants -> VariantStates]

RefCatalog == [v \in Variants |-> [price |-> 999, inventory_quantity |-> 2]]

(* The saga is followed on a cart of one valid item of variant 1. *)
SagaVariants == {1}

SagaCarts == {<<[variant_id |-> 1, quantity |-> 1, price |-> 999]>>}

NoCalls == [o \in 1..MaxOrders |-> [op \in Ops |-> 0]]

InitStore ==
    /\ orders = <<>>
    /\ req = [w \in Workers |-> IdleReq]
    /\ firestore = [v \in Variants |-> 1]
    /\ calls = NoCalls
    /\ nextPayPalId = 1
    /\ nextShopifyId = 1
    /\ audit = {}
    /\ nreq = 0

Init == InitStore /\ catalog = RefCatalog

Next ==
    \/ \E w \in Workers, cart \in SagaCarts, reads \in [{1} -> ReadOutcomes] :
          StartOpen(w, cart, TRUE, reads)
    \/ \E w \in Workers : OpenPayPal(w)
    \/ \E w \in Workers, token \in 0..nextPayPalId : StartReturn(w, token)
    \/ \E w \in Workers : ReturnAuthorize(w)
    \/ \E w \in Workers : ReturnCreateShopify(w)
    \/ \E w \in Workers, token \in 0..nextPayPalId : StartCancel(w, token)
    \/ \E w \in Workers : CancelSave(w)
    \/ \E w \in Workers, id \in 1..MaxOrders : StartCapture(w, id)
    \/ \E w \in Workers, id \in 1..MaxOrders : StartProcess(w, id)
    \/ \E w \in Workers : ProcessStock(w)
    \/ \E w \in Workers : Capture(w)
    \/ \E w \in Workers : UpdateToPaid(w)
    \/ \E w \in Workers : CancelOrderFlow(w)
    \/ \E w \in Workers, id \in 1..MaxOrders : TestProcessOrder(w, id)
    \/ \E w \in Workers, verifiable \in BOOLEAN : PayPalWebhook(w, verifiable)
    \/ \E v \in SagaVariants, n \in Stocks : ExportToFirestore(v, n)

Spec == Init /\ [][Next]_vars

(* The Open step alone: one checkout request, over every cart and catalog. *)
InitOpen == InitStore /\ catalog \in Catalogs

NextOpen ==
    \/ /\ nreq = 0
       /\ \E cart \in Carts, email \in BOOLEAN, reads \in [1..MaxItems -> ReadOutcomes] :
             StartOpen(1, cart, email, reads)
    \/ OpenPayPal(1)

SpecOpen == InitOpen /\ [][NextOpen]_vars

----------------------------------------------------------------------------
(* Properties of the Open step (create_paypal_order) *)

Range(f) == {f[i] : i \in DOMAIN f}

LivePrice(item) == catalog[item.variant_id].price
LiveStock(item) == catalog[item.variant_id].inventory_quantity

(* The submitted and the live price differ by more than the relative 1e-5. *)
BeyondTolerance(a, b) == Abs(a - b) > Max(Abs(a), Abs(b)) \div RelTolInv

(* The request was rejected with nothing done: no row, no PayPal call. *)
NothingOpened(r) ==
    /\ r.pc = "done"
    /\ r.resp \in {"400_errors", "500_errors"}
    /\ r.inst = NoInst
    /\ Len(orders) = r.n0
    /\ "pp_create" \notin r.did
    /\ r.sent = Null
    /\ \A o \in 1..MaxOrders : calls[o]["pp_create"] = 0

(* How many entries of the error list are e. *)
Entries(r, e) == Cardinality({j \in 1..Len(r.errors) : r.errors[j] = e})

(* C1: a cart with an item whose live price differs from the submitted one *)
(* by more than the tolerance is rejected whole: no Order row, no PayPal   *)
(* create-order call.                                                      *)
C1_PriceDriftRejectsCheckout ==
    \A w \in Workers :
        (/\ req[w].h = "open"
         /\ \E i \in 1..Len(req[w].cart) :
               BeyondTolerance(req[w].cart[i].price, LivePrice(req[w].cart[i])))
        => NothingOpened(req[w])

C1_Witness ==
    \E w \in Workers :
        /\ req[w].h = "open" /\ req[w].pc = "done" /\ Len(req[w].cart) = 2
        /\ req[w].examined = <<"ok", "ok">>
        /\ req[w].cart[1].price # LivePrice(req[w].cart[1])
        /\ ~BeyondTolerance(req[w].cart[1].price, LivePrice(req[w].cart[1]))
        /\ BeyondTolerance(req[w].cart[2].price, LivePrice(req[w].cart[2]))
        /\ req[w].errors = <<Err(req[w].cart[2].variant_id, "price_changed")>>
        /\ req[w].resp = "400_errors"

(* The items of r's cart, of variant v, that fail check k against the *)
(* live catalog.                                                      *)
Failing(r, v, k) ==
    {i \in 1..Len(r.cart) :
        /\ Truthy(r.cart[i]) /\ r.cart[i].variant_id = v
        /\ \/ k = "out_of_stock" /\ r.cart[i].quantity > LiveStock(r.cart[i])
           \/ k = "price_changed" /\ BeyondTolerance(r.cart[i].price, LivePrice(r.cart[i]))}

(* C2: validation is not fail-fast: for every cart every line item is     *)
(* examined and the returned error list has an entry for each failing     *)
(* item; a request with errors creates no Order row and makes no PayPal   *)
(* call.                                                                  *)
C2_EveryItemChecked ==
    \A w \in Workers :
        LET r == req[w]
        IN (r.h = "open" /\ r.cart # <<>>) =>
            /\ Len(r.examined) = Len(r.cart)
            /\ Cardinality({j \in 1..Len(ResponseErrors(r)) :
                                ResponseErrors(r)[j] = Err(Null, "invalid")})
                 = Cardinality({i \in 1..Len(r.cart) : ~Truthy(r.cart[i])})
            /\ \A v \in Variants, k \in {"out_of_stock", "price_changed"} :
                  \A i \in Failing(r, v, k) :
                      \/ Err(v, k) \in Range(ResponseErrors(r))
                      \/ Err(v, "unavailable") \in Range(ResponseErrors(r))
            /\ r.errors # <<>> => NothingOpened(r)

RECURSIVE LiveTotal(_, _)
LiveTotal(cart, i) ==
    IF i > Len(cart) THEN 0
    ELSE LivePrice(cart[i]) * cart[i].quantity + LiveTotal(cart, i + 1)

(* C4: when the Open step persists an Order, the amount stored in it and  *)
(* the amount sent to PayPal are the sum over all line items of live      *)
(* price times quantity.                                                  *)
C4_AmountIsLiveTotal ==
    \A w \in Workers :
        LET r == req[w]
        IN (r.h = "open" /\ r.inst # NoInst) =>
            /\ Len(orders) = r.n0 + 1
            /\ r.inst["id"] = Len(orders)
            /\ orders[r.inst["id"]]["order_data"].amount = LiveTotal(r.cart, 1)
            /\ Len(orders[r.inst["id"]]["order_data"].line_items) = Len(r.cart)
            /\ "pp_create" \in r.did => r.sent = LiveTotal(r.cart, 1)

C4_Witness ==
    \E w \in Workers :
        LET r == req[w]
        IN /\ r.h = "open" /\ r.resp = "200_approval" /\ Len(r.cart) = 2
           /\ r.cart[1].price # LivePrice(r.cart[1])
           /\ r.cart[1].variant_id # r.cart[2].variant_id
           /\ r.sent = LiveTotal(r.cart, 1)
           /\ orders[r.inst["id"]]["order_data"].amount = r.sent

----------------------------------------------------------------------------
(* The settlement saga (specification Spec).                                *)

Settlement == {"capture", "process"}

Finished(r) == r.pc = "done"

(* The request captured the payment and its Shopify update then failed. *)
CapturedThenUpdateFailed(r) ==
    /\ r.h \in Settlement
    /\ "capture_ok" \in r.did
    /\ "sh_update" \in r.did /\ "sh_update_ok" \notin r.did

(* The requests of v and w are settlements of one order that overlapped. *)
Overlapping(v, w) ==
    /\ v # w
    /\ req[v].h \in Settlement /\ req[w].h \in Settlement
    /\ req[v].inst # NoInst /\ req[v].inst["id"] = req[w].inst["id"]
    /\ (v \in req[w].conc \/ w \in req[v].conc)

(* C5: when process_order fails its stock re-check on an AUTHORIZED order,  *)
(* both compensating calls (void of the authorization, cancel of the        *)
(* Shopify order) are attempted and the order ends CANCELLED.               *)
C5_CompensationCompletes ==
    \A w \in Workers :
        LET r == req[w]
        IN (r.h = "process" /\ Finished(r) /\ "stock_failed" \in r.did) =>
            /\ "void" \in r.did
            /\ "sh_cancel" \in r.did
            /\ orders[r.inst["id"]]["status"] = "CANCELLED"

(* C6: in a settlement, when the capture succeeds and the Shopify update to *)
(* paid then fails, the order ends in status CRITICAL_INCONSISTENCY (and    *)
(* not CANCELLED).                                                          *)
C6_CriticalInconsistency ==
    \A w \in Workers :
        LET r == req[w]
        IN (Finished(r) /\ CapturedThenUpdateFailed(r)) =>
            orders[r.inst["id"]]["status"] = "CRITICAL_INCONSISTENCY"

C9_SettlementSerialized ==
    \A v \in Workers, w \in Workers :
        Overlapping(v, w) =>
            /\ ~("capture" \in req[v].did /\ "capture" \in req[w].did)
            /\ ~("sh_update" \in req[v].did /\ "sh_update" \in req[w].did)

(* C10: over any number of paypal_return invocations with one PayPal order  *)
(* id, Shopify's create_order succeeds at most once for the order, so       *)
(* shopify_order_id is written at most once.                                *)
C10_ShopifyOrderCreatedOnce ==
    \A o \in 1..MaxOrders : calls[o]["sh_create_ok"] <= 1

----------------------------------------------------------------------------
(* The status edges the order life cycle allows. *)
LegalEdges ==
    {<<"PENDING", "AUTHORIZED">>, <<"AUTHORIZED", "CAPTURED">>,
     <<"PENDING", "CANCELLED">>, <<"AUTHORIZED", "CANCELLED">>,
     <<"AUTHORIZED", "CRITICAL_INCONSISTENCY">>,
     <<"CAPTURED", "CRITICAL_INCONSISTENCY">>}

(* C11: every change of an order's stored status is one of the legal edges; *)
(* no order leaves CANCELLED or CAPTURED for an earlier status.             *)
C11_MonotonicTransitions ==
    [][ \A o \in 1..Len(orders) :
          orders'[o]["status"] # orders[o]["status"] =>
              <<orders[o]["status"], orders'[o]["status"]>> \in LegalEdges ]_vars

C13_FailedFinalizeKeepsStatus ==
    [][ \A w \in Workers :
          (req'[w] # req[w] /\ req'[w].h = "return"
                            /\ req'[w].resp # "redirect_success") =>
              orders' = orders ]_vars

C13_Witness ==
    \E w \in Workers :
        LET r == req[w]
        IN /\ r.h = "return" /\ Finished(r)
           /\ r.resp = "redirect_failure" /\ r.msg = "shopify_error"
           /\ HasAttr(r.inst, "paypal_authorization_id")
           /\ r.seen = "PENDING"
           /\ orders[r.inst["id"]]["status"] = "PENDING"

(* C14: an order stored with status AUTHORIZED is stored with a PayPal      *)
(* authorization id and a Shopify order id, so that a request loading it    *)
(* finds both.                                                              *)
C14_AuthorizedHasBothIds ==
    \A o \in 1..Len(orders) :
        orders[o]["status"] = "AUTHORIZED" =>
            LET inst == LoadOrder(orders[o])
            IN /\ HasAttr(inst, "paypal_authorization_id")
               /\ inst["paypal_authorization_id"] # Null
               /\ inst["shopify_order_id"] # Null

(* The capture step of a settlement failed: PayPal's capture was invoked    *)
(* and raised, or process_order's capture statement raised before the call. *)
CaptureFailed(r) ==
    /\ r.h \in Settlement
    /\ \/ "capture" \in r.did /\ "capture_ok" \notin r.did
       \/ r.h = "process" /\ r.msg = "payment_failed"

(* C15: when the capture fails in process_order on an AUTHORIZED order, the *)
(* authorization is voided, the Shopify order is cancelled, the order ends  *)
(* CANCELLED and the update to paid is not invoked by that request.         *)
C15_CaptureFailureCompensates ==
    \A w \in Workers :
        LET r == req[w]
        IN (r.h = "process" /\ Finished(r) /\ CaptureFailed(r)) =>
            /\ "void" \in r.did
            /\ r.inst["shopify_order_id"] # Null => "sh_cancel" \in r.did
            /\ orders[r.inst["id"]]["status"] = "CANCELLED"
            /\ "sh_update" \notin r.did

(* C16: process_order on an AUTHORIZED order whose stock re-check fails and *)
(* whose compensating calls do not fail ends with the authorization voided, *)
(* the Shopify order cancelled, one notification sent, status CANCELLED,    *)
(* and no capture attempted.                                                *)
C16_StockFailureScenario ==
    \A w \in Workers :
        LET r == req[w]
        IN (/\ r.h = "process" /\ Finished(r) /\ "stock_failed" \in r.did
            /\ "void_failed" \notin r.did /\ "sh_cancel_failed" \notin r.did) =>
            /\ {"void", "sh_cancel", "notify"} \subseteq r.did
            /\ "capture" \notin r.did
            /\ r.inst["status"] = "CANCELLED"

(* The row was created, PayPal's create_order was invoked for it and failed: *)
(* the order is PENDING and has no paypal_order_id.                          *)
Orphaned(o) ==
    /\ orders[o]["status"] = "PENDING"
    /\ orders[o]["paypal_order_id"] = Null
    /\ calls[o]["pp_create"] > 0

(* C17: for every order left PENDING by a failed PayPal create_order there   *)
(* is a cancel request (a token) that reaches it.                            *)
C17_OrphanCancellable ==
    \A o \in 1..Len(orders) :
        Orphaned(o) => \E token \in 1..nextPayPalId : o \in ByPayPalId(token)

(* C18: paypal_cancel changes the stored status of an order only when the   *)
(* order is currently PENDING or AUTHORIZED.                                *)
C18_CancelOnlyOpenOrders ==
    [][ \A w \in Workers :
          (req[w].h = "cancel" /\ req[w].pc = "cancel_save" /\ req'[w].pc = "done") =>
              \A o \in 1..Len(orders) :
                  orders'[o]["status"] # orders[o]["status"] =>
                      orders[o]["status"] \in {"PENDING", "AUTHORIZED"} ]_vars

(* C19: in paypal_return, once Shopify's create_order has succeeded, the    *)
(* order is stored AUTHORIZED with its identifiers and the caller is sent   *)
(* to the success page, whether the audit document was written or not.      *)
C19_AuditFailureHarmless ==
    [][ \A w \in Workers :
          (req[w].pc = "shopify_create" /\ "sh_create_ok" \in req'[w].did) =>
              LET o == req[w].inst["id"]
              IN /\ req'[w].resp = "redirect_success"
                 /\ orders'[o]["status"] = "AUTHORIZED"
                 /\ orders'[o]["shopify_order_id"] = nextShopifyId
                 /\ orders'[o]["paypal_order_id"] = req[w].inst["paypal_order_id"] ]_vars

C19_Witness ==
    \E w \in Workers :
        LET r == req[w]
        IN /\ r.h = "return" /\ r.resp = "redirect_success"
           /\ r.inst["shopify_order_number"] \notin audit
           /\ orders[r.inst["id"]]["status"] = "AUTHORIZED"
           /\ orders[r.inst["id"]]["shopify_order_id"] = r.inst["shopify_order_id"]

(* C20: paypal_webhook answers an event whose signature cannot be verified  *)
(* with a non-2xx response, and no event makes it capture a payment or      *)
(* create a Shopify order.                                                  *)
C20_WebhookVerifies ==
    [][ \A w \in Workers :
          (req'[w] # req[w] /\ req'[w].h = "webhook") =>
              /\ req'[w].msg = "unverifiable" => req'[w].resp # "200"
              /\ calls' = calls
              /\ orders' = orders ]_vars

----------------------------------------------------------------------------
(* The identifiers the gateways issue, as a request loading the order finds *)
(* them.                                                                    *)
GatewayIds == {"paypal_order_id", "paypal_authorization_id", "shopify_order_id"}

HasId(row, a) == LoadOrder(row)[a] \notin {Null, NoAttr}

(* C21: once an order's paypal_order_id, paypal_authorization_id or         *)
(* shopify_order_id has a value, no step gives it a different one.          *)
C21_IdentifiersWriteOnce ==
    [][ \A o \in 1..Len(orders), a \in GatewayIds :
          HasId(orders[o], a) =>
              LoadOrder(orders'[o])[a] = LoadOrder(orders[o])[a] ]_vars

(* C22: no two orders that are not CANCELLED hold the same paypal_order_id, *)
(* and no two hold the same shopify_order_id.                               *)
C22_LiveIdsUnique ==
    \A o \in 1..Len(orders), p \in 1..Len(orders) :
        (/\ o # p
         /\ orders[o]["status"] # "CANCELLED"
         /\ orders[p]["status"] # "CANCELLED") =>
            \A a \in {"paypal_order_id", "shopify_order_id"} :
                HasId(orders[o], a) => orders[o][a] # orders[p][a]

C22_Witness ==
    /\ Len(orders) = 2
    /\ \A o \in 1..2 :
          /\ orders[o]["status"] = "AUTHORIZED"
          /\ HasId(orders[o], "paypal_order_id")
          /\ HasId(orders[o], "shopify_order_id")

----------------------------------------------------------------------------
(* C23: when Shopify reports that an item's variant does not exist (the     *)
(* read returns no variant, or is answered not-found and raises), the       *)
(* request records an 'item no longer available' error for the item, goes   *)
(* on to examine the remaining items, and is rejected with status 400, no   *)
(* Order row and no PayPal call.                                            *)
C23_MissingVariantRejected ==
    \A w \in Workers :
        LET r == req[w]
        IN r.h = "open" =>
            \A i \in 1..Len(r.examined) :
                r.examined[i] \in {"none", "raise"} =>
                    /\ Err(r.cart[i].variant_id, "unavailable") \in Range(ResponseErrors(r))
                    /\ Len(r.examined) = Len(r.cart)
                    /\ r.resp = "400_errors"
                    /\ NothingOpened(r)

(* C25: when every item passes validation and PayPal accepts the order, the *)
(* request ends with exactly one new Order, PENDING, holding the PayPal     *)
(* order id, and the approval link is returned; the row exists, PENDING and *)
(* without a PayPal order id, before PayPal is called.                      *)
C25_OpenSucceeds ==
    \A w \in Workers :
        LET r == req[w]
        IN /\ (r.h = "open" /\ r.pc = "open_paypal") =>
                /\ Len(orders) = r.n0 + 1
                /\ orders[Len(orders)] = Persist(r.inst)
                /\ orders[Len(orders)]["status"] = "PENDING"
                /\ orders[Len(orders)]["paypal_order_id"] = Null
                /\ "pp_create" \notin r.did
           /\ (r.h = "open" /\ "pp_create" \in r.did /\ r.resp # "500") =>
                /\ r.resp = "200_approval"
                /\ Len(orders) = r.n0 + 1
                /\ orders[Len(orders)]["status"] = "PENDING"
                /\ orders[Len(orders)]["paypal_order_id"] = r.inst["paypal_order_id"]
                /\ r.inst["paypal_order_id"] # Null
                /\ calls[Len(orders)]["pp_create"] = 1

C25_Witness ==
    \E w \in Workers :
        LET r == req[w]
        IN /\ r.h = "open" /\ r.resp = "200_approval" /\ Len(r.cart) = 2
           /\ \A i \in 1..2 : r.examined[i] = "ok"
           /\ Len(orders) = 1 /\ orders[1]["status"] = "PENDING"
           /\ orders[1]["paypal_order_id"] = r.inst["paypal_order_id"]

----------------------------------------------------------------------------
(* C24: whatever fails inside _cancel_order_flow, the request that runs it  *)
(* ends with the one cancellation response: status 400 and the reason it    *)
(* was called with.                                                         *)
C24_CompensationNeverRaises ==
    [][ \A w \in Workers :
          (req[w].pc = "cancel_flow" /\ req'[w].pc # "cancel_flow") =>
              /\ Finished(req'[w])
              /\ req'[w].resp = "400_error"
              /\ req'[w].msg = req[w].msg
              /\ req'[w].msg \in {"out_of_stock", "payment_failed", "critical"} ]_vars

C24_Witness ==
    \E w \in Workers :
        LET r == req[w]
        IN /\ r.h = "process" /\ Finished(r) /\ r.resp = "400_error"
           /\ r.msg = "out_of_stock"
           /\ r.inst["status"] = "AUTHORIZED"
           /\ "notify" \notin r.did

C27_SequentialCaptureOnce ==
    \A o \in 1..MaxOrders :
        calls[o]["overlap"] = 0 => calls[o]["capture_ok"] <= 1

C29_NotAuthorizedUntouched ==
    [][ \A w \in Workers :
          (/\ req'[w] # req[w]
           /\ req'[w].h \in Settlement
           /\ req'[w].seen \in Statuses \ {"AUTHORIZED"}) =>
              /\ Finished(req'[w])
              /\ req'[w].did = {}
              /\ req'[w].resp \in {"404", "500"}
              /\ calls' = calls
              /\ orders' = orders ]_vars

C29_Witness ==
    \E w \in Workers, v \in Workers, o \in 1..MaxOrders :
        /\ o \in 1..Len(orders) /\ orders[o]["status"] = "PENDING"
        /\ \A op \in Ops \ {"pp_create"} : calls[o][op] = 0
        /\ req[w].h = "capture" /\ req[w].seen = "PENDING" /\ req[w].resp = "500"
        /\ req[v].h = "process" /\ req[v].seen = "PENDING" /\ req[v].resp = "404"

(* C30: paypal_cancel changes nothing but the order's status: it makes no   *)
(* gateway call and leaves every other stored column of the order as it     *)
(* was.                                                                     *)
C30_CancelChangesStatusOnly ==
    [][ \A w \in Workers :
          (req[w].pc = "cancel_save" /\ req'[w].pc = "done") =>
              /\ calls' = calls
              /\ \A o \in 1..Len(orders), f \in ModelFields \ {"status"} :
                    orders'[o][f] = orders[o][f] ]_vars

====
